---- MODULE Spec2Model ----
(***************************************************************************)
(* Checkpoint management of GNU tar (src/checkpoint.c): the compiler of    *)
(* checkpoint action specifications, the template interpreter, the         *)
(* executor that walks the compiled action list on every Nth tick, the     *)
(* signal set of the wait actions, and the end-of-run flush.               *)
(*                                                                         *)
(* A C string is a sequence of one-character strings; control characters   *)
(* are the tokens CR, LF, BEL, TAB, NUL.                                   *)
(***************************************************************************)
EXTENDS Integers, Sequences, FiniteSets, TLC

(* ------------------------------ bounds --------------------------------- *)

\* most records the host compiles into the action list
MaxActions == 2
\* most run_tick calls of one run
MaxTicks == 4
\* largest tick interval the host configures
MaxInterval == 2

(* ----------------------------- constants ------------------------------- *)

\* checkpoint rate applied when actions were given without --checkpoint=N
DEFAULT_CHECKPOINT == 10

CHKP_INIT == "CHKP_INIT"
CHKP_COMPILE == "CHKP_COMPILE"
CHKP_RUN == "CHKP_RUN"

cop_dot == "cop_dot"
cop_bell == "cop_bell"
cop_echo == "cop_echo"
cop_ttyout == "cop_ttyout"
cop_sleep == "cop_sleep"
cop_exec == "cop_exec"
cop_totals == "cop_totals"
cop_wait == "cop_wait"

\* the null pointer in a char * field
NULL == <<"(null)">>
CR == "CR"
LF == "LF"
BEL == "BEL"
TAB == "TAB"
NUL == "NUL"
SIGUSR1 == "SIGUSR1"
SIGUSR2 == "SIGUSR2"
\* no signal: the zeroed v.signal of a record that is no wait action
NOSIG == "0"

Digits == <<"0", "1", "2", "3", "4", "5", "6", "7", "8", "9">>
IsDigit(c) == \E i \in 1..10 : Digits[i] = c
DigitVal(c) == (CHOOSE i \in 1..10 : Digits[i] = c) - 1

\* strncmp (str, prefix, strlen (prefix)) == 0
HasPrefix(str, prefix) ==
    /\ Len(str) >= Len(prefix)
    /\ SubSeq(str, 1, Len(prefix)) = prefix

\* str + n: the string from its n-th character (0-based) on
Tail_n(str, n) == SubSeq(str, n + 1, Len(str))

(* --------------------------- action records ---------------------------- *)

\* xzalloc: every member of the union v reads as zero
ZeroAction(opcode) ==
    [opcode |-> opcode, time |-> 0, command |-> NULL, signal |-> NOSIG]

\* faulty variant: the new record is linked at the head of the list
alloc_action_prepend(list, opcode) == <<ZeroAction(opcode)>> \o list

\* alloc_action: the new record is linked at the tail of the list
alloc_action(list, opcode) == Append(list, ZeroAction(opcode))

\* faulty variant: the member is set on the head of the list
SetHead(list, member, value) ==
    [list EXCEPT ![1] = [@ EXCEPT ![member] = value]]

\* p->v.<member> = value, on the record alloc_action has just linked
SetLast(list, member, value) ==
    [list EXCEPT ![Len(list)] = [@ EXCEPT ![member] = value]]

(* ------------------------------ unquoting ------------------------------ *)

RECURSIVE unquote_string(_)
\* unquote_string: backslash escapes are resolved, an unknown escape and a
\* trailing backslash are kept
unquote_string(s) ==
    IF s = <<>> THEN <<>>
    ELSE IF s[1] = "\\" /\ Len(s) >= 2
    THEN LET c == s[2]
             r == IF c = "r" THEN <<CR>>
                  ELSE IF c = "n" THEN <<LF>>
                  ELSE IF c = "a" THEN <<BEL>>
                  ELSE IF c = "t" THEN <<TAB>>
                  ELSE IF c = "\\" THEN <<"\\">>
                  ELSE <<"\\", c>>
         IN r \o unquote_string(Tail_n(s, 2))
    ELSE <<s[1]>> \o unquote_string(Tail(s))

IsQuote(c) == c = "\"" \/ c = "'"

\* faulty variant: the last character is not compared with the first
copy_string_unquote_anyend(str) ==
    LET len == Len(str)
        output == IF len > 1 /\ IsQuote(str[1])
                  THEN SubSeq(str, 2, len - 1)
                  ELSE str
    IN unquote_string(output)

\* copy_string_unquote: one wrapping pair of equal quotes is removed, then
\* the escapes are resolved
copy_string_unquote(str) ==
    LET len == Len(str)
        output == IF len > 1 /\ IsQuote(str[1]) /\ str[len] = str[1]
                  THEN SubSeq(str, 2, len - 1)
                  ELSE str
    IN unquote_string(output)

(* ------------------------- numbers and signals ------------------------- *)

RECURSIVE DigitPrefixLen(_)
\* how many leading characters of arg are decimal digits
DigitPrefixLen(arg) ==
    IF arg = <<>> \/ ~IsDigit(arg[1]) THEN 0 ELSE 1 + DigitPrefixLen(Tail(arg))

RECURSIVE DecValue(_)
DecValue(ds) ==
    IF ds = <<>> THEN 0
    ELSE 10 * DecValue(SubSeq(ds, 1, Len(ds) - 1)) + DigitVal(ds[Len(ds)])

\* stoint: the value of the leading digits and where the scan stopped
\* (end = 0: nothing was consumed, the p == arg of the callers)
stoint(arg) ==
    LET n == DigitPrefixLen(arg)
    IN [val |-> DecValue(SubSeq(arg, 1, n)), end |-> n, rest |-> Tail_n(arg, n)]

\* decode_signal: a signal name, with or without SIG; anything else is fatal
decode_signal(name) ==
    LET s == IF HasPrefix(name, <<"S", "I", "G">>) THEN Tail_n(name, 3) ELSE name
    IN IF s = <<"U", "S", "R", "1">> THEN SIGUSR1
       ELSE IF s = <<"U", "S", "R", "2">> THEN SIGUSR2
       ELSE NOSIG

(* ------------------------- template interpreter ------------------------ *)

\* the name tar reports itself under in front of an echo line
program_name == <<"t", "a", "r">>

\* the built-in template of %c:  %{%Y-%m-%d %H:%M:%S}t: %ds, %{read,wrote}T%*\r
def_format ==
    <<"%", "{", "%", "Y", "-", "%", "m", "-", "%", "d", " ",
      "%", "H", ":", "%", "M", ":", "%", "S", "}", "t", ":", " ",
      "%", "d", "s", ",", " ",
      "%", "{", "r", "e", "a", "d", ",", "w", "r", "o", "t", "e", "}", "T",
      "%", "*", CR>>

\* the default labels of the totals, one per slot (read, write, deleted)
checkpoint_total_format == <<<<"R">>, <<"W">>, <<"D">>>>

RECURSIVE DecString(_)
\* printf of a non-negative integer in decimal
DecString(n) ==
    IF n < 10 THEN <<Digits[n + 1]>>
    ELSE DecString(n \div 10) \o <<Digits[(n % 10) + 1]>>

Spaces(n) == [i \in 1..n |-> " "]

\* getwidth: the window size if the probe gives one, else COLUMNS if it is a
\* whole nonzero number, else 80
getwidth(ws_col, columns) ==
    IF 0 < ws_col THEN ws_col
    ELSE IF columns # NULL
            /\ stoint(columns).rest = <<>> /\ stoint(columns).val # 0
         THEN stoint(columns).val
         ELSE 80

\* the position of the terminator of the C string that begins at position j
StrEnd(input, j) ==
    IF \E k \in j..Len(input) : input[k] = NUL
    THEN CHOOSE k \in j..Len(input) :
             input[k] = NUL /\ \A m \in j..(k - 1) : input[m] # NUL
    ELSE Len(input) + 1

\* strchr (input + 1, '}'): the index of the first } after position j, 0 if none
CloseBrace(input, j) ==
    IF \E k \in (j + 1)..(StrEnd(input, j) - 1) : input[k] = "}"
    THEN CHOOSE k \in (j + 1)..(StrEnd(input, j) - 1) :
             input[k] = "}" /\ \A m \in (j + 1)..(k - 1) : input[m] # "}"
    ELSE 0

\* getarg at position j: the text between { and the first }, and the position
\* after the }; no argument leaves the position where it was
getarg(input, j) ==
    IF j <= Len(input) /\ input[j] = "{" /\ CloseBrace(input, j) # 0
    THEN [arg |-> SubSeq(input, j + 1, CloseBrace(input, j) - 1),
          endp |-> CloseBrace(input, j) + 1]
    ELSE [arg |-> NULL, endp |-> j]

RECURSIVE SplitAt(_, _)
\* wordsplit with the delimiter set: the words between the delimiters
SplitAt(arg, delim) ==
    IF arg = <<>> THEN <<>>
    ELSE IF \E k \in 1..Len(arg) : arg[k] = delim
    THEN LET k == CHOOSE k \in 1..Len(arg) :
                      arg[k] = delim /\ \A m \in 1..(k - 1) : arg[m] # delim
         IN <<SubSeq(arg, 1, k - 1)>> \o SplitAt(Tail_n(arg, k), delim)
    ELSE <<arg>>

\* format_total_stats: each slot's label, if it has one, and byte count,
\* separated by eor
format_total_stats(fmt, eor, bytes) ==
    LET slot(i) == (IF fmt[i] = NULL \/ fmt[i] = <<>> THEN <<>>
                    ELSE fmt[i] \o <<":", " ">>) \o DecString(bytes)
    IN slot(1) \o <<eor>> \o slot(2) \o <<eor>> \o slot(3)

\* fprintftime of the current local time under the pattern fmt
fprintftime(fmt, clock) == clock

\* the text localtime's failure is replaced by
NoTimeText ==
    <<"?", "?", "?", "?", "-", "?", "?", "-", "?", "?", " ",
      "?", "?", ":", "?", "?", ":", "?", "?">>

\* the character at 1-based position i of a C string: its terminator at the end
CharAt(input, i) == IF i <= Len(input) THEN input[i] ELSE NUL

\* faulty variant: a slot without a word keeps its default label
TotalsLabels_fill(arg) ==
    IF arg = NULL THEN [fmt |-> checkpoint_total_format, err |-> FALSE]
    ELSE LET ws == SplitAt(arg, ",")
         IN IF 3 < Len(ws)
            THEN [fmt |-> checkpoint_total_format, err |-> TRUE]
            ELSE [fmt |-> [i \in 1..3 |-> IF i <= Len(ws) THEN ws[i]
                                          ELSE checkpoint_total_format[i]],
                  err |-> FALSE]

\* the labels %T hands to the totals formatter, and whether an error is reported
TotalsLabels(arg) ==
    IF arg = NULL THEN [fmt |-> checkpoint_total_format, err |-> FALSE]
    ELSE LET ws == SplitAt(arg, ",")
         IN IF 3 < Len(ws)
            THEN [fmt |-> checkpoint_total_format, err |-> TRUE]
            ELSE [fmt |-> [i \in 1..3 |-> IF i <= Len(ws) THEN ws[i] ELSE NULL],
                  err |-> FALSE]

\* faulty variant: an argument that is no number gives the width of the terminal
StarWidth_live(arg, env) ==
    IF arg = NULL \/ stoint(arg).end = 0 \/ stoint(arg).rest # <<>>
    THEN getwidth(env.ws_col, env.columns)
    ELSE stoint(arg).val

\* the width %* pads to
StarWidth(arg, env) ==
    IF arg = NULL THEN getwidth(env.ws_col, env.columns)
    ELSE IF stoint(arg).end = 0 \/ stoint(arg).rest # <<>> THEN 80
         ELSE stoint(arg).val

\* the memory the interpreter scans: the template, its terminator, and the
\* bytes that happen to lie behind it up to the next zero byte
Mem(input, beyond) == input \o <<NUL>> \o beyond

\* what the interpreter has done so far: the characters written to the stream,
\* the running column count, whether tty_cleanup was set, the errors reported,
\* and the labels last handed to format_total_stats
FmtStart(len) ==
    [out |-> <<>>, len |-> len, cleanup |-> FALSE, errs |-> 0, labels |-> <<>>]

Emit(st, text) == [st EXCEPT !.out = @ \o text, !.len = @ + Len(text)]

RECURSIVE FmtLoop(_, _, _, _, _, _)
RECURSIVE FmtStep(_, _, _, _, _, _)

\* for (; w > len; len++) fputc (' ', fp)
PadTo(st, w) == IF w > st.len THEN Emit(st, Spaces(w - st.len)) ELSE st

\* one iteration of the for loop of format_checkpoint_string, at a position ip
\* that does not hold the terminator: the state after the body, and the
\* position after the ip++ of the loop
FmtStep(input, ip, st, do_write, cpn, env) ==
    IF input[ip] # "%"
    THEN LET c == input[ip]
         IN [ip |-> ip + 1,
             st |-> IF c = CR
                    THEN [st EXCEPT !.out = @ \o <<c>>, !.len = 0, !.cleanup = TRUE]
                    ELSE Emit(st, <<c>>)]
    ELSE LET ga == IF CharAt(input, ip + 1) = "{" THEN getarg(input, ip + 1)
                   ELSE [arg |-> NULL, endp |-> ip + 1]
             arg == ga.arg
             j == ga.endp
             c == CharAt(input, j)
         IN IF CharAt(input, ip + 1) = "{" /\ arg = NULL
            THEN [ip |-> j + 1, st |-> Emit(st, <<"%", c>>)]
            ELSE [ip |-> j + 1,
                  st |->
                     CASE c = "c" ->
                            LET inner == FmtLoop(Mem(def_format, env.beyond), 1,
                                                 FmtStart(st.len), do_write, cpn, env)
                            IN [out |-> st.out \o inner.out,
                                len |-> st.len + inner.len,
                                cleanup |-> st.cleanup \/ inner.cleanup,
                                errs |-> st.errs + inner.errs,
                                labels |-> inner.labels]
                       [] c = "u" -> Emit(st, DecString(cpn))
                       [] c = "s" ->
                            Emit(st, IF do_write THEN <<"w", "r", "i", "t", "e">>
                                     ELSE <<"r", "e", "a", "d">>)
                       [] c = "d" -> Emit(st, DecString(env.duration))
                       [] c = "T" ->
                            LET tl == TotalsLabels(arg)
                            IN [Emit(st, format_total_stats(tl.fmt, ",", env.bytes))
                                  EXCEPT !.errs = @ + (IF tl.err THEN 1 ELSE 0),
                                         !.labels = tl.fmt]
                       [] c = "t" ->
                            Emit(st, IF env.tm_ok
                                     THEN fprintftime(IF arg # NULL THEN arg
                                                      ELSE <<"%", "c">>, env.clock)
                                     ELSE NoTimeText)
                       [] c = "*" -> PadTo(st, StarWidth(arg, env))
                       [] OTHER -> Emit(st, <<"%", c>>)]

\* the for loop of format_checkpoint_string from position ip on: it ends at
\* the first zero byte it finds where it tests *ip
FmtLoop(input, ip, st, do_write, cpn, env) ==
    IF CharAt(input, ip) = NUL THEN st
    ELSE CHOOSE r \in { FmtLoop(input, n.ip, n.st, do_write, cpn, env) :
                           n \in {FmtStep(input, ip, st, do_write, cpn, env)} } :
             TRUE

\* the template format_checkpoint_string renders: a null pointer stands for
\* the default message
TemplateOf(input, do_write) ==
    IF input # NULL THEN input
    ELSE IF do_write
         THEN <<"W", "r", "i", "t", "e", " ", "c", "h", "e", "c", "k",
                "p", "o", "i", "n", "t", " ", "%", "u">>
         ELSE <<"R", "e", "a", "d", " ", "c", "h", "e", "c", "k",
                "p", "o", "i", "n", "t", " ", "%", "u">>

\* format_checkpoint_string (fp, len, input, do_write, cpn)
format_checkpoint_string(len, input, do_write, cpn, env) ==
    FmtLoop(Mem(TemplateOf(input, do_write), env.beyond), 1, FmtStart(len),
            do_write, cpn, env)


(* ------------------------------- inputs -------------------------------- *)

\* the action specifications the host passes to checkpoint_compile_action
Specs ==
    { <<".">>,
      <<"d", "o", "t">>,
      <<"b", "e", "l", "l">>,
      <<"e", "c", "h", "o">>,
      <<"e", "c", "h", "o", "=", "'", "h", "i", "'">>,
      <<"e", "x", "e", "c", "=", "x">>,
      <<"t", "t", "y", "o", "u", "t", "=", "%", "u", "\\", "r">>,
      <<"t", "t", "y", "o", "u", "t", "=", "x">>,
      <<"s", "l", "e", "e", "p", "=", "2">>,
      <<"s", "l", "e", "e", "p", "=", "x">>,
      <<"t", "o", "t", "a", "l", "s">>,
      <<"w", "a", "i", "t", "=", "U", "S", "R", "1">>,
      <<"w", "a", "i", "t", "=", "S", "I", "G", "U", "S", "R", "2">>,
      <<"w", "a", "i", "t", "=", "F", "O", "O">>,
      <<"n", "o", "p">> }

\* the signals the environment sends to the process
Signals == {SIGUSR1, SIGUSR2}

\* the specifications of the runs in which the list is also executed: one
\* of each opcode, a second signal, and two that are rejected
RunSpecs ==
    { <<"d", "o", "t">>,
      <<"b", "e", "l", "l">>,
      <<"e", "c", "h", "o">>,
      <<"e", "x", "e", "c", "=", "x">>,
      <<"t", "t", "y", "o", "u", "t", "=", "%", "u", "\\", "r">>,
      <<"s", "l", "e", "e", "p", "=", "2">>,
      <<"s", "l", "e", "e", "p", "=", "x">>,
      <<"t", "o", "t", "a", "l", "s">>,
      <<"w", "a", "i", "t", "=", "U", "S", "R", "1">>,
      <<"w", "a", "i", "t", "=", "S", "I", "G", "U", "S", "R", "2">>,
      <<"n", "o", "p">> }

\* the specifications of the runs that are about the wait action
WaitSpecs ==
    { <<"d", "o", "t">>,
      <<"w", "a", "i", "t", "=", "U", "S", "R", "1">>,
      <<"w", "a", "i", "t", "=", "S", "I", "G", "U", "S", "R", "2">> }

\* the templates handed to format_checkpoint_string: literal text, every
\* directive with and without an argument, a carriage return, %c, and
\* templates that end inside a directive; the null pointer for the default
FmtInputs ==
    { NULL,
      <<"a", "b", "c">>,
      <<"%", "u">>,
      <<"x", "%", "u", "y">>,
      <<"%", "s">>,
      <<"%", "d">>,
      <<"%", "t">>,
      <<"%", "{", "%", "H", "}", "t">>,
      <<"%", "z">>,
      <<"%", "{", "5", "}", "*">>,
      <<"%", "{", "2", "}", "*">>,
      <<"%", "*">>,
      <<"%", "{", "}", "*">>,
      <<"%", "{", "x", "}", "*">>,
      <<"%", "{", "5", "x", "}", "*">>,
      <<"a", "b", "%", "{", "5", "}", "*">>,
      <<"%", "T">>,
      <<"%", "{", "a", "}", "T">>,
      <<"%", "{", "a", ",", "b", "}", "T">>,
      <<"%", "{", "a", ",", "b", ",", "c", "}", "T">>,
      <<"%", "{", "a", ",", "b", ",", "c", ",", "d", "}", "T", "z">>,
      <<"%", "c">>,
      <<"a", "b", "%", "c">>,
      <<"a", "%", "c", "%", "{", "3", "}", "*">>,
      <<"x", CR, "y">>,
      <<"%">>,
      <<"a", "b", "%">>,
      <<"%", "{", "5", "}">>,
      <<"%", "{">>,
      <<"%", "{", "5">> }

\* the column the caller has reached: 0 for ttyout, the length of the
\* "tar: " prefix for echo
StartColumns == {0, 5}

\* the checkpoint numbers handed to format_checkpoint_string
CheckpointNumbers == {7, 42}

\* what the collaborators answer to a render on its own: the probe and
\* COLUMNS in each of their cases, localtime failing or not, and the bytes
\* that lie behind the template
FmtEnvs ==
    [duration : {7}, bytes : {0}, tm_ok : BOOLEAN,
     clock : {<<"1", "2", ":", "0", "0">>}, ws_col : {0, 3},
     columns : {NULL, <<"9">>, <<"x">>}, beyond : {<<>>, <<"g">>}]

\* specifications whose text is wrapped in quotes, or is not: a pair of either
\* quote, a pair inside a pair, a quote alone, an empty pair, two different
\* quotes, no quote, and quotes that do not wrap
QuoteSpecs ==
    { <<"e", "c", "h", "o", "=", "\"", "h", "e", "l", "l", "o", "\"">>,
      <<"e", "x", "e", "c", "=", "'", "i", "t", "'", "'", "s", "'">>,
      <<"t", "t", "y", "o", "u", "t", "=", "'">>,
      <<"e", "c", "h", "o", "=", "'", "'">>,
      <<"e", "c", "h", "o", "=", "'", "a", "b", "\"">>,
      <<"e", "c", "h", "o", "=", "h", "e", "l", "l", "o">>,
      <<"t", "t", "y", "o", "u", "t", "=", "\"", "a", "'", "b", "\"">>,
      <<"e", "x", "e", "c", "=", "a", "'", "b", "'">> }

\* the specifications of the runs that are about the terminal: a bell, an
\* echo whose text is a carriage return, and a ttyout that renders none
TermSpecs ==
    { <<"b", "e", "l", "l">>,
      <<"e", "c", "h", "o", "=", "\\", "r">>,
      <<"t", "t", "y", "o", "u", "t", "=", "x">> }

\* what the window-size probe of the terminal answers (0: no answer)
WsCols == {0, 3}
\* the COLUMNS variable of the environment
ColumnsEnv == {NULL}

\* what the collaborators answer while a template is rendered
Envs ==
    [duration : {7}, bytes : {0}, tm_ok : {TRUE},
     clock : {<<"1", "2", ":", "0", "0">>}, ws_col : WsCols, columns : ColumnsEnv,
     beyond : {<<>>}]

(* -------------------------------- state -------------------------------- *)

VARIABLES
    checkpoint_option,   \* the tick interval; 0: checkpointing is off
    checkpoint,          \* the checkpointing counter
    checkpoint_action,   \* the list of checkpoint actions, head first
    checkpoint_state,    \* CHKP_INIT, CHKP_COMPILE or CHKP_RUN
    sigs,                \* the signal set of the wait actions
    tty,                 \* the terminal stream: "NULL", "open" or "closed"
    tty_cleanup,         \* a carriage return was rendered
    blocked,             \* the signal mask of the process
    pending,             \* blocked signals that have arrived
    pc,                  \* the call in progress: idle, finish_compile, run, exited, fatal
    p,                   \* the record the traversal is at (0: no traversal)
    do_write,            \* the argument of the checkpoint_run in progress
    out,                 \* what the last step wrote: the stream and the text
    specs,               \* history: the specifications compiled without a fatal error
    nticks,              \* history: the checkpoint_run calls made
    traversals,          \* history: the traversals of the list begun
    nblock,              \* history: the sigprocmask calls made
    fc_called,           \* history: checkpoint_finish_compile has been called
    proto_ok,            \* history: every call came at its place in the host's order
    configured_option,   \* history: the interval the host configured
    failed_at,           \* history: the records at which an open of the terminal failed
    executed,            \* history: the opcodes performed so far in the traversal, in order
    fpc,                 \* format_checkpoint_string on its own: none, loop or done
    input,               \* its template
    ip,                  \* its read position (1-based; Len + 1: the terminator)
    len,                 \* its running column count, and its return value
    fp,                  \* the characters it has written to its stream
    cpn,                 \* its checkpoint number
    fenv,                \* what the collaborators answer during the call
    len0,                \* history: the column it was called with
    labels,              \* history: the labels last handed to format_total_stats
    nerr                 \* history: the errors it has reported

vars ==
    <<checkpoint_option, checkpoint, checkpoint_action, checkpoint_state, sigs,
      tty, tty_cleanup, blocked, pending, pc, p, do_write, out, specs, nticks,
      traversals, nblock, fc_called, proto_ok, configured_option, failed_at,
      executed, fpc, input, ip, len, fp, cpn, fenv, len0, labels, nerr>>

fmt_vars == <<fpc, input, ip, len, fp, cpn, fenv, len0, labels, nerr>>

prog_vars == <<checkpoint_option, checkpoint, checkpoint_action, checkpoint_state, sigs>>
term_vars == <<tty, tty_cleanup>>
sig_vars == <<blocked, pending>>
run_vars == <<p, do_write>>
hist_vars ==
    <<specs, nticks, traversals, nblock, fc_called, proto_ok, configured_option,
      failed_at, executed>>

NoOut == [stream |-> "none", text |-> <<>>]

\* no call of format_checkpoint_string on its own
NoRender ==
    /\ fpc = "none"
    /\ input = NULL
    /\ ip = 0
    /\ len = 0
    /\ fp = <<>>
    /\ cpn = 0
    /\ fenv = CHOOSE e \in Envs : TRUE
    /\ len0 = 0
    /\ labels = <<>>
    /\ nerr = 0

\* the static variables of checkpoint.c when the process starts
StartOfRun ==
    /\ checkpoint_option \in 0..MaxInterval
    /\ checkpoint = 0
    /\ checkpoint_action = <<>>
    /\ checkpoint_state = CHKP_INIT
    /\ sigs = {}
    /\ tty = "NULL"
    /\ tty_cleanup = FALSE
    /\ blocked = {}
    /\ pending = {}
    /\ pc = "idle"
    /\ p = 0
    /\ out = NoOut
    /\ specs = <<>>
    /\ nticks = 0
    /\ traversals = 0
    /\ nblock = 0
    /\ fc_called = FALSE
    /\ proto_ok = TRUE
    /\ configured_option = checkpoint_option
    /\ failed_at = {}
    /\ executed = <<>>

Init == StartOfRun /\ do_write = FALSE /\ NoRender

(* ------------------------------ compiler ------------------------------- *)

\* faulty variant: the set is overwritten with the new signal
sigaddset_overwrite(set, sig) == {sig}

\* sigaddset (&set, sig)
sigaddset(set, sig) == set \cup {sig}

\* the dispatch of checkpoint_compile_action on the specification: the list
\* and the signal set it leaves, and whether it ended in paxfatal
compile_dispatch(str, list, set) ==
    LET plain(op) == [list |-> alloc_action(list, op), sigs |-> set, fatal |-> FALSE]
        text(op, n) ==
            [list |-> SetLast(alloc_action(list, op), "command",
                              copy_string_unquote(Tail_n(str, n))),
             sigs |-> set, fatal |-> FALSE]
    IN IF str = <<".">> \/ str = <<"d", "o", "t">> THEN plain(cop_dot)
       ELSE IF str = <<"b", "e", "l", "l">> THEN plain(cop_bell)
       ELSE IF str = <<"e", "c", "h", "o">> THEN plain(cop_echo)
       ELSE IF HasPrefix(str, <<"e", "c", "h", "o", "=">>) THEN text(cop_echo, 5)
       ELSE IF HasPrefix(str, <<"e", "x", "e", "c", "=">>) THEN text(cop_exec, 5)
       ELSE IF HasPrefix(str, <<"t", "t", "y", "o", "u", "t", "=">>)
       THEN text(cop_ttyout, 7)
       ELSE IF HasPrefix(str, <<"s", "l", "e", "e", "p", "=">>)
       THEN LET arg == Tail_n(str, 6)
                r == stoint(arg)
            IN [list |-> SetLast(alloc_action(list, cop_sleep), "time", r.val),
                sigs |-> set,
                fatal |-> (r.end = 0 \/ r.rest # <<>>)]
       ELSE IF str = <<"t", "o", "t", "a", "l", "s">> THEN plain(cop_totals)
       ELSE IF HasPrefix(str, <<"w", "a", "i", "t", "=">>)
       THEN LET sig == decode_signal(Tail_n(str, 5))
            IN IF sig = NOSIG
               THEN [list |-> alloc_action(list, cop_wait), sigs |-> set,
                     fatal |-> TRUE]
               ELSE [list |-> SetLast(alloc_action(list, cop_wait), "signal", sig),
                     sigs |-> sigaddset(set, sig), fatal |-> FALSE]
       ELSE [list |-> list, sigs |-> set, fatal |-> TRUE]

\* faulty variant: every call enters CHKP_COMPILE, not only the first
compile_action_reenter(str, state, list, set) ==
    LET r == compile_dispatch(str, list, IF state = CHKP_INIT THEN {} ELSE set)
    IN [state |-> CHKP_COMPILE, list |-> r.list, sigs |-> r.sigs, fatal |-> r.fatal]

\* checkpoint_compile_action (str) on the state given: the first call empties
\* the signal set and enters CHKP_COMPILE
compile_action(str, state, list, set) ==
    LET r == compile_dispatch(str, list, IF state = CHKP_INIT THEN {} ELSE set)
    IN [state |-> IF state = CHKP_INIT THEN CHKP_COMPILE ELSE state,
        list |-> r.list, sigs |-> r.sigs, fatal |-> r.fatal]

\* the host calls checkpoint_compile_action (str)
checkpoint_compile_action(str) ==
    /\ pc = "idle"
    /\ Len(checkpoint_action) < MaxActions
    /\ LET r == compile_action(str, checkpoint_state, checkpoint_action, sigs)
       IN /\ checkpoint_state' = r.state
          /\ checkpoint_action' = r.list
          /\ sigs' = r.sigs
          /\ pc' = IF r.fatal THEN "fatal" ELSE "idle"
          /\ specs' = IF r.fatal THEN specs ELSE Append(specs, str)
    /\ proto_ok' = (proto_ok /\ ~fc_called)
    /\ out' = NoOut
    /\ UNCHANGED <<checkpoint_option, checkpoint, term_vars, sig_vars, run_vars,
                   nticks, traversals, nblock, fc_called, configured_option,
                   failed_at,
                   executed, fmt_vars>>

\* faulty variant: the default is provided with checkpointing off too
needs_default_unasked(state, option, list) ==
    state = CHKP_INIT /\ list = <<>>

\* the condition under which checkpoint_finish_compile provides the
\* historical default
needs_default(state, option, list) ==
    state = CHKP_INIT /\ option # 0 /\ list = <<>>

\* the host calls checkpoint_finish_compile: its first statement, the
\* historical default of one echo action
checkpoint_finish_compile_default ==
    /\ pc = "idle"
    /\ IF needs_default(checkpoint_state, checkpoint_option, checkpoint_action)
       THEN LET r == compile_action(<<"e", "c", "h", "o">>, checkpoint_state,
                                    checkpoint_action, sigs)
            IN /\ checkpoint_state' = r.state
               /\ checkpoint_action' = r.list
               /\ sigs' = r.sigs
       ELSE UNCHANGED <<checkpoint_state, checkpoint_action, sigs>>
    /\ pc' = "finish_compile"
    /\ fc_called' = TRUE
    /\ out' = NoOut
    /\ UNCHANGED <<checkpoint_option, checkpoint, term_vars, sig_vars, run_vars,
                   specs, nticks, traversals, nblock, proto_ok, configured_option,
                   failed_at,
                   executed, fmt_vars>>

\* faulty variant: the mask is left as it was
sigprocmask_skipped(mask, set) == mask

\* sigprocmask (SIG_BLOCK, &set, NULL): the mask of the process afterwards
sigprocmask_block(mask, set) == mask \cup set

\* faulty variant: the default rate replaces the rate the host has set
default_rate_always(option) == DEFAULT_CHECKPOINT

\* if (!checkpoint_option) checkpoint_option = DEFAULT_CHECKPOINT
default_rate(option) == IF option = 0 THEN DEFAULT_CHECKPOINT ELSE option

\* faulty variant: CHKP_RUN is entered from any state
compile_to_finish_any(state) == TRUE

\* if (checkpoint_state == CHKP_COMPILE): there is a compilation to finish
compile_to_finish(state) == state = CHKP_COMPILE

\* checkpoint_finish_compile, its second statement: the signal set is blocked,
\* the default rate applied, and CHKP_RUN entered
checkpoint_finish_compile_run ==
    /\ pc = "finish_compile"
    /\ IF compile_to_finish(checkpoint_state)
       THEN /\ blocked' = sigprocmask_block(blocked, sigs)
            /\ nblock' = nblock + 1
            /\ checkpoint_option' = default_rate(checkpoint_option)
            /\ checkpoint_state' = CHKP_RUN
       ELSE UNCHANGED <<blocked, nblock, checkpoint_option, checkpoint_state>>
    /\ pc' = "idle"
    /\ out' = NoOut
    /\ UNCHANGED <<checkpoint, checkpoint_action, sigs, term_vars, pending,
                   run_vars, specs, nticks, traversals, fc_called, proto_ok,
                   configured_option, failed_at,
                   executed, fmt_vars>>


(* ------------------------------- executor ------------------------------ *)

\* faulty variant: the test is made on the counter before it is advanced
tick_fires_stale(count, option) == (count - 1) % option = 0

\* !(++checkpoint % checkpoint_option), on the counter already advanced
tick_fires(count, option) == count % option = 0

\* checkpoint_run (do_write): the counter is advanced when checkpointing is on,
\* and the list is walked when the counter is a multiple of the interval
checkpoint_run(dw) ==
    /\ pc = "idle"
    /\ nticks < MaxTicks
    /\ nticks' = nticks + 1
    /\ proto_ok' = (proto_ok /\ fc_called)
    /\ out' = NoOut
    /\ IF checkpoint_option # 0
       THEN /\ checkpoint' = checkpoint + 1
            /\ IF tick_fires(checkpoint + 1, checkpoint_option)
               THEN /\ pc' = "run"
                    /\ p' = 1
                    /\ do_write' = dw
                    /\ traversals' = traversals + 1
                    /\ executed' = <<>>
               ELSE UNCHANGED <<pc, p, do_write, traversals, executed>>
       ELSE UNCHANGED <<checkpoint, pc, p, do_write, traversals, executed>>
    /\ UNCHANGED <<checkpoint_option, checkpoint_action, checkpoint_state, sigs,
                   term_vars, sig_vars, specs, nblock, fc_called,
                   configured_option, failed_at,
                   fmt_vars>>

\* the traversal of run_checkpoint_actions is at a record of this opcode
At(opcode) ==
    /\ pc = "run"
    /\ p \in 1..Len(checkpoint_action)
    /\ checkpoint_action[p].opcode = opcode

\* faulty variant: the record after the one performed is passed over
Advance_over ==
    /\ p' = p + 2
    /\ executed' = Append(executed, checkpoint_action[p].opcode)
    /\ UNCHANGED <<prog_vars, blocked, pc, do_write, specs, nticks, traversals,
                   nblock, fc_called, proto_ok, configured_option, fmt_vars>>

\* what every case of the switch leaves alone, and p = p->next
Advance ==
    /\ p' = p + 1
    /\ executed' = Append(executed, checkpoint_action[p].opcode)
    /\ UNCHANGED <<prog_vars, blocked, pc, do_write, specs, nticks, traversals,
                   nblock, fc_called, proto_ok, configured_option, fmt_vars>>

\* if (!tty) tty = fopen ("/dev/tty", "w"): the stream after it, given whether
\* an open would succeed
fopen_tty(stream, ok) ==
    IF stream = "NULL" THEN (IF ok THEN "open" ELSE "NULL") ELSE stream

\* faulty variant: the stream is written to without the test
tty_unchecked(stream) == TRUE

\* if (tty): the stream can be written to
tty_usable(stream) == stream # "NULL"

\* the records at which an open has failed, after the step at record p
FailedAfter(stream) == IF stream = "NULL" THEN failed_at \cup {p} ELSE failed_at

run_dot ==
    /\ At(cop_dot)
    /\ out' = [stream |-> "stdlis", text |-> <<".">>]
    /\ Advance
    /\ UNCHANGED <<term_vars, pending, failed_at>>

run_bell ==
    /\ At(cop_bell)
    /\ \E ok \in BOOLEAN :
          /\ tty' = fopen_tty(tty, ok)
          /\ out' = IF tty_usable(tty') THEN [stream |-> "tty", text |-> <<BEL>>]
                    ELSE NoOut
          /\ failed_at' = FailedAfter(tty')
    /\ Advance
    /\ UNCHANGED <<tty_cleanup, pending>>

run_echo ==
    /\ At(cop_echo)
    /\ \E env \in Envs :
          LET prefix == program_name \o <<":", " ">>
              r == format_checkpoint_string(Len(prefix), checkpoint_action[p].command,
                                            do_write, checkpoint, env)
          IN /\ out' = [stream |-> "stderr", text |-> prefix \o r.out \o <<LF>>]
             /\ tty_cleanup' = (tty_cleanup \/ r.cleanup)
    /\ Advance
    /\ UNCHANGED <<tty, pending, failed_at>>

run_ttyout ==
    /\ At(cop_ttyout)
    /\ \E ok \in BOOLEAN, env \in Envs :
          LET r == format_checkpoint_string(0, checkpoint_action[p].command,
                                            do_write, checkpoint, env)
          IN /\ tty' = fopen_tty(tty, ok)
             /\ failed_at' = FailedAfter(tty')
             /\ IF tty_usable(tty')
                THEN /\ out' = [stream |-> "tty", text |-> r.out]
                     /\ tty_cleanup' = (tty_cleanup \/ r.cleanup)
                ELSE /\ out' = NoOut
                     /\ UNCHANGED tty_cleanup
    /\ Advance
    /\ UNCHANGED pending

run_sleep ==
    /\ At(cop_sleep)
    /\ out' = NoOut
    /\ Advance
    /\ UNCHANGED <<term_vars, pending, failed_at>>

run_exec ==
    /\ At(cop_exec)
    /\ out' = NoOut
    /\ Advance
    /\ UNCHANGED <<term_vars, pending, failed_at>>

run_totals ==
    /\ At(cop_totals)
    /\ \E env \in Envs :
          out' = [stream |-> "stdlis",
                  text |-> format_total_stats(checkpoint_total_format, LF, env.bytes)]
    /\ Advance
    /\ UNCHANGED <<term_vars, pending, failed_at>>

\* faulty variant: sigwait returns with any signal of the set, pending or not
Waitable_unsent(set, pend) == set

\* the signals a sigwait on set can return with: those of the set that are pending
Waitable(set, pend) == set \cap pend

\* case cop_wait: sigwait (&sigs, &n) returns with a pending signal of the set
run_wait ==
    /\ At(cop_wait)
    /\ \E n \in Waitable(sigs, pending) : pending' = pending \ {n}
    /\ out' = NoOut
    /\ Advance
    /\ UNCHANGED <<term_vars, failed_at>>

\* the for loop of run_checkpoint_actions ends and checkpoint_run returns
run_return ==
    /\ pc = "run"
    /\ p = Len(checkpoint_action) + 1
    /\ pc' = "idle"
    /\ p' = 0
    /\ do_write' = FALSE
    /\ out' = NoOut
    /\ executed' = <<>>
    /\ UNCHANGED <<prog_vars, term_vars, sig_vars, specs, nticks, traversals,
                   nblock, fc_called, proto_ok, configured_option, failed_at,
                   fmt_vars>>

(* ------------------------------- signals ------------------------------- *)

\* a signal is sent to the process: a blocked one stays pending; one that is
\* not blocked is handled at once, unless a sigwait on its set is in progress,
\* which the system may or may not let return
signal_arrives(s) ==
    /\ pc \in {"idle", "finish_compile", "run"}
    /\ out' = NoOut
    /\ \/ /\ s \in blocked
          /\ pending' = pending \cup {s}
          /\ UNCHANGED <<prog_vars, term_vars, blocked, pc, run_vars, hist_vars, fmt_vars>>
       \/ /\ s \notin blocked
          /\ UNCHANGED <<prog_vars, term_vars, sig_vars, pc, run_vars, hist_vars, fmt_vars>>
       \/ /\ s \notin blocked
          /\ At(cop_wait)
          /\ s \in sigs
          /\ Advance
          /\ UNCHANGED <<term_vars, pending, failed_at>>

(* ------------------------------- shutdown ------------------------------ *)

RECURSIVE flush_text_unflagged(_, _, _, _)
\* faulty variant: the pass does not consult tty_cleanup
flush_text_unflagged(list, stream, cleanup, w) ==
    IF list = <<>> THEN <<>>
    ELSE (IF list[1].opcode = cop_ttyout /\ stream = "open"
          THEN Spaces(w) \o <<CR>> ELSE <<>>)
         \o flush_text_unflagged(Tail(list), stream, cleanup, w)

RECURSIVE flush_text(_, _, _, _)
\* checkpoint_flush_actions: what the pass over the list writes to the terminal
flush_text(list, stream, cleanup, w) ==
    IF list = <<>> THEN <<>>
    ELSE (IF list[1].opcode = cop_ttyout /\ stream = "open" /\ cleanup
          THEN Spaces(w) \o <<CR>> ELSE <<>>)
         \o flush_text(Tail(list), stream, cleanup, w)

\* the host calls checkpoint_finish
checkpoint_finish ==
    /\ pc = "idle"
    /\ pc' = "exited"
    /\ IF checkpoint_option # 0
       THEN \E ws_col \in WsCols, columns \in ColumnsEnv :
               LET text == flush_text(checkpoint_action, tty, tty_cleanup,
                                      getwidth(ws_col, columns))
               IN /\ out' = IF text # <<>> THEN [stream |-> "tty", text |-> text]
                            ELSE NoOut
                  /\ tty' = IF tty # "NULL" THEN "closed" ELSE tty
       ELSE /\ out' = NoOut
            /\ UNCHANGED tty
    /\ UNCHANGED <<prog_vars, tty_cleanup, sig_vars, run_vars, hist_vars, fmt_vars>>

(* ------------------ format_checkpoint_string on its own ---------------- *)

\* format_checkpoint_string is entered with a template, a column, a mode and
\* a checkpoint number
FormatInit ==
    /\ StartOfRun
    /\ checkpoint_option = 0
    /\ do_write \in BOOLEAN
    /\ fpc = "loop"
    /\ \E t \in FmtInputs : input = TemplateOf(t, do_write)
    /\ ip = 1
    /\ len0 \in StartColumns
    /\ len = len0
    /\ fp = <<>>
    /\ cpn \in CheckpointNumbers
    /\ fenv \in FmtEnvs
    /\ labels = <<>>
    /\ nerr = 0

\* the locals of the call, as the state the loop body works on
FmtState ==
    [out |-> fp, len |-> len, cleanup |-> tty_cleanup, errs |-> nerr,
     labels |-> labels]

\* one iteration of the for loop: *ip is not the zero byte
format_checkpoint_string_step ==
    /\ fpc = "loop"
    /\ CharAt(Mem(input, fenv.beyond), ip) # NUL
    /\ LET n == FmtStep(Mem(input, fenv.beyond), ip, FmtState, do_write, cpn, fenv)
       IN /\ ip' = n.ip
          /\ fp' = n.st.out
          /\ len' = n.st.len
          /\ tty_cleanup' = n.st.cleanup
          /\ nerr' = n.st.errs
          /\ labels' = n.st.labels
    /\ UNCHANGED <<prog_vars, tty, sig_vars, pc, run_vars, out, hist_vars, fpc,
                   input, cpn, fenv, len0>>

\* *ip is the zero byte: the stream is flushed and len returned
format_checkpoint_string_return ==
    /\ fpc = "loop"
    /\ CharAt(Mem(input, fenv.beyond), ip) = NUL
    /\ fpc' = "done"
    /\ UNCHANGED <<prog_vars, term_vars, sig_vars, pc, run_vars, out, hist_vars,
                   input, ip, len, fp, cpn, fenv, len0, labels, nerr>>

(* ---------------------------- specification ---------------------------- *)

Next ==
    \/ \E str \in RunSpecs : checkpoint_compile_action(str)
    \/ checkpoint_finish_compile_default
    \/ checkpoint_finish_compile_run
    \/ \E dw \in BOOLEAN : checkpoint_run(dw)
    \/ run_dot
    \/ run_bell
    \/ run_echo
    \/ run_ttyout
    \/ run_sleep
    \/ run_exec
    \/ run_totals
    \/ run_wait
    \/ run_return
    \/ \E s \in Signals : signal_arrives(s)
    \/ checkpoint_finish

\* every run of the host: any call at any time, one call at a time
Spec == Init /\ [][Next]_vars

\* the configuration phase alone, over every specification
CompileNext ==
    \/ \E str \in Specs : checkpoint_compile_action(str)
    \/ checkpoint_finish_compile_default
    \/ checkpoint_finish_compile_run

CompileSpec == Init /\ [][CompileNext]_vars

\* the compilation of specifications with quoted texts
QuoteNext ==
    \/ \E str \in QuoteSpecs : checkpoint_compile_action(str)
    \/ checkpoint_finish_compile_default
    \/ checkpoint_finish_compile_run

QuoteSpec == Init /\ [][QuoteNext]_vars

\* the runs whose lists are made of bell, echo and ttyout actions
TermNext ==
    \/ \E str \in TermSpecs : checkpoint_compile_action(str)
    \/ checkpoint_finish_compile_default
    \/ checkpoint_finish_compile_run
    \/ \E dw \in BOOLEAN : checkpoint_run(dw)
    \/ run_bell
    \/ run_echo
    \/ run_ttyout
    \/ run_return
    \/ checkpoint_finish

TermSpec == Init /\ [][TermNext]_vars

\* the calls of format_checkpoint_string, each on its own
FormatNext ==
    \/ format_checkpoint_string_step
    \/ format_checkpoint_string_return

FormatSpec == FormatInit /\ [][FormatNext]_vars

\* the runs whose lists are made of dot and wait actions (and the default echo)
WaitNext ==
    \/ \E str \in WaitSpecs : checkpoint_compile_action(str)
    \/ checkpoint_finish_compile_default
    \/ checkpoint_finish_compile_run
    \/ \E dw \in BOOLEAN : checkpoint_run(dw)
    \/ run_dot
    \/ run_echo
    \/ run_wait
    \/ run_return
    \/ \E s \in Signals : signal_arrives(s)
    \/ checkpoint_finish

\* the statements of a traversal: the single thread of the process keeps
\* executing, and a sigwait returns once a signal of its set is pending
Traverse == run_dot \/ run_echo \/ run_wait \/ run_return

\* those runs, with the traversal never stopping where it can go on; nothing
\* obliges the host to call or the environment to send a signal
FairSpec == Init /\ [][WaitNext]_vars /\ WF_vars(Traverse)

(* ------------------------------- claims -------------------------------- *)

\* C1: tick gating.  With a configured interval N > 0 every checkpoint_run
\* call advances the counter by one (the counter equals the number of calls)
\* and the list is walked exactly on the calls whose advanced counter is a
\* multiple of N, so that after k calls floor(k/N) traversals have begun;
\* while the interval is 0 no traversal ever begins and the counter stays 0.
C1_TickGating ==
    /\ configured_option > 0 =>
          /\ checkpoint_option = configured_option
          /\ checkpoint = nticks
          /\ traversals = nticks \div configured_option
    /\ checkpoint_option = 0 => (traversals = 0 /\ checkpoint = 0)
    /\ checkpoint_option # 0 => traversals = checkpoint \div checkpoint_option

\* the second traversal has begun on the fourth tick of interval 2
C1_Witness ==
    /\ configured_option = 2
    /\ nticks = 4
    /\ traversals = 2
    /\ pc = "run"

\* C2, as claimed: whenever the traversal is at a wait action, every signal
\* of the set it waits on is blocked, whatever calls the host has made.
C2_BlockedAtEveryWait == At(cop_wait) => sigs \subseteq blocked

\* C2, amended: in a run in which the host keeps its order of calls (every
\* checkpoint_compile_action before checkpoint_finish_compile, every
\* checkpoint_run after it), whenever the traversal is at a wait action every
\* signal of the set it waits on is blocked.
C2_BlockBeforeWait == (proto_ok /\ At(cop_wait)) => sigs \subseteq blocked

\* in host order, the traversal is at a wait action that waits on two signals
C2_Witness ==
    /\ proto_ok
    /\ At(cop_wait)
    /\ sigs = {SIGUSR1, SIGUSR2}
    /\ checkpoint_state = CHKP_RUN

\* the Action Record each accepted specification of Specs stands for: its
\* opcode and its payload (a duration, an unquoted text or a signal)
RecordOf(str) ==
    LET rec(op, t, c, sg) == [opcode |-> op, time |-> t, command |-> c, signal |-> sg]
    IN CASE str = <<".">> -> rec(cop_dot, 0, NULL, NOSIG)
         [] str = <<"d", "o", "t">> -> rec(cop_dot, 0, NULL, NOSIG)
         [] str = <<"b", "e", "l", "l">> -> rec(cop_bell, 0, NULL, NOSIG)
         [] str = <<"e", "c", "h", "o">> -> rec(cop_echo, 0, NULL, NOSIG)
         [] str = <<"e", "c", "h", "o", "=", "'", "h", "i", "'">> ->
                rec(cop_echo, 0, <<"h", "i">>, NOSIG)
         [] str = <<"e", "x", "e", "c", "=", "x">> -> rec(cop_exec, 0, <<"x">>, NOSIG)
         [] str = <<"t", "t", "y", "o", "u", "t", "=", "%", "u", "\\", "r">> ->
                rec(cop_ttyout, 0, <<"%", "u", CR>>, NOSIG)
         [] str = <<"t", "t", "y", "o", "u", "t", "=", "x">> ->
                rec(cop_ttyout, 0, <<"x">>, NOSIG)
         [] str = <<"s", "l", "e", "e", "p", "=", "2">> -> rec(cop_sleep, 2, NULL, NOSIG)
         [] str = <<"t", "o", "t", "a", "l", "s">> -> rec(cop_totals, 0, NULL, NOSIG)
         [] str = <<"w", "a", "i", "t", "=", "U", "S", "R", "1">> ->
                rec(cop_wait, 0, NULL, SIGUSR1)
         [] str = <<"w", "a", "i", "t", "=", "S", "I", "G", "U", "S", "R", "2">> ->
                rec(cop_wait, 0, NULL, SIGUSR2)

\* the records of a sequence of accepted specifications, in their order
RecordsOf(strs) == [i \in 1..Len(strs) |-> RecordOf(strs[i])]

\* the specifications were compiled, checkpoint_finish_compile was called
\* after them and has returned, and nothing was compiled since
CompiledThenFinished == fc_called /\ pc = "idle" /\ proto_ok

\* C3, as claimed: once checkpoint_finish_compile has returned, the list is
\* exactly the records of the specifications compiled before it, in their
\* order, for every sequence of them (the empty one too).
C3_ProgramIsCompiledSpecs ==
    CompiledThenFinished => checkpoint_action = RecordsOf(specs)

\* C3, amended: once checkpoint_finish_compile has returned, the list is
\* exactly the records of the specifications compiled before it, in their
\* order, whenever at least one was compiled or checkpointing is off; with
\* none compiled and checkpointing on, the list is the default echo instead.
C3_ProgramIsCompiledSpecsUnlessDefault ==
    CompiledThenFinished =>
        IF specs # <<>> \/ configured_option = 0
        THEN checkpoint_action = RecordsOf(specs)
        ELSE checkpoint_action = <<ZeroAction(cop_echo)>>

\* two different records were compiled and checkpoint_finish_compile returned
C3_Witness ==
    /\ CompiledThenFinished
    /\ Len(specs) = 2
    /\ checkpoint_action = RecordsOf(specs)
    /\ checkpoint_action[1] # checkpoint_action[2]
    /\ checkpoint_state = CHKP_RUN

\* a step of a checkpoint_finish_compile call: its first or its second statement
FinishCompileStep ==
    \/ (pc = "idle" /\ pc' = "finish_compile")
    \/ pc = "finish_compile"

\* C4: a checkpoint_finish_compile call appends exactly one echo action with
\* no text, leaving a list of length 1, if checkpointing is on and no action
\* was ever compiled (the list is empty); it appends nothing if an action was
\* compiled or checkpointing is off.
C4_DefaultEcho ==
    [][FinishCompileStep =>
          IF pc = "idle" /\ checkpoint_option # 0 /\ checkpoint_action = <<>>
          THEN checkpoint_action' = <<ZeroAction(cop_echo)>>
          ELSE checkpoint_action' = checkpoint_action]_vars

\* checkpoint_finish_compile has returned with the default echo as the list
C4_Witness ==
    /\ fc_called
    /\ pc = "idle"
    /\ specs = <<>>
    /\ configured_option > 0
    /\ checkpoint_action = <<ZeroAction(cop_echo)>>

\* a checkpoint_compile_action call: the host's, or the one made by
\* checkpoint_finish_compile for the default echo
CompileCall ==
    \/ (pc = "idle" /\ pc' \in {"idle", "fatal"}
        /\ (Len(specs') = Len(specs) + 1 \/ pc' = "fatal"))
    \/ (pc = "idle" /\ pc' = "finish_compile" /\ checkpoint_action' # checkpoint_action)

\* C5: the state changes only from CHKP_INIT to CHKP_COMPILE, on the first
\* compile call, and from CHKP_COMPILE to CHKP_RUN, in
\* checkpoint_finish_compile; in CHKP_RUN no step changes it, and a
\* checkpoint_finish_compile call made in CHKP_RUN changes neither the state,
\* the interval, the list nor the signal mask.
C5_Lifecycle ==
    [][/\ checkpoint_state' # checkpoint_state =>
             \/ /\ checkpoint_state = CHKP_INIT
                /\ checkpoint_state' = CHKP_COMPILE
                /\ CompileCall
                /\ checkpoint_action = <<>>
                /\ specs = <<>>
             \/ /\ checkpoint_state = CHKP_COMPILE
                /\ checkpoint_state' = CHKP_RUN
                /\ pc = "finish_compile"
       /\ checkpoint_state = CHKP_RUN => checkpoint_state' = CHKP_RUN
       /\ (checkpoint_state = CHKP_RUN /\ FinishCompileStep) =>
             UNCHANGED <<checkpoint_state, checkpoint_option, checkpoint_action,
                         sigs, blocked>>]_vars

\* checkpoint_finish_compile is called again in CHKP_RUN, after a traversal
C5_Witness ==
    /\ checkpoint_state = CHKP_RUN
    /\ pc = "finish_compile"
    /\ traversals > 0
    /\ nblock = 1

\* the signals carried by the wait actions of a list
WaitSignals(list) ==
    {list[i].signal : i \in {j \in 1..Len(list) : list[j].opcode = cop_wait}}

\* C6, as claimed (its first part): in any run the block of the signal set is
\* applied exactly once; so when the host has called
\* checkpoint_finish_compile and then checkpoint_finish, one block was made.
C6_BlockedOnceInAnyRun == (pc = "exited" /\ fc_called) => nblock = 1

\* C6, amended: the block of the signal set is applied at most once in any
\* run, at the step from CHKP_COMPILE to CHKP_RUN and nowhere else (never, in
\* a run that does not take that step), and the set blocked at that moment is
\* exactly the set of the signals carried by the wait actions of the list.
C6_BlockAtTransition ==
    [][/\ nblock' # nblock =>
             /\ nblock = 0
             /\ nblock' = 1
             /\ checkpoint_state = CHKP_COMPILE
             /\ checkpoint_state' = CHKP_RUN
             /\ blocked = {}
             /\ blocked' = WaitSignals(checkpoint_action)
       /\ (checkpoint_state = CHKP_COMPILE /\ checkpoint_state' = CHKP_RUN) =>
             nblock' = nblock + 1
       /\ blocked' # blocked => nblock' # nblock]_vars

\* CHKP_RUN was entered with two wait actions for different signals compiled
C6_Witness ==
    /\ checkpoint_state = CHKP_RUN
    /\ nblock = 1
    /\ proto_ok
    /\ blocked = {SIGUSR1, SIGUSR2}
    /\ Len(checkpoint_action) = 2

\* no wait action follows record k in the list
NoWaitAfter(k) ==
    \A j \in (k + 1)..Len(checkpoint_action) : checkpoint_action[j].opcode # cop_wait

\* the traversal is at the wait action at record k and a signal of the set
\* is pending
WaitSignalled(k) == At(cop_wait) /\ p = k /\ sigs \cap pending # {}

\* C7, as claimed (its last part): in host order, once a signal of the set is
\* pending at a wait action, the wait returns and the tick completes.
C7_SignalledTickCompletes ==
    (proto_ok /\ At(cop_wait) /\ sigs \cap pending # {}) ~> (pc = "idle")

\* C7, amended: the traversal leaves a wait action only with a signal of the
\* set delivered to the process; a blocked signal that has arrived stays
\* pending until a wait action takes it; once a signal of the set is pending
\* at a wait action the wait returns and the traversal goes on to the next
\* record, and the tick completes if no further wait action follows (a
\* further wait action waits for a signal of its own).
C7_WaitNoLostSignal ==
    /\ [][/\ (At(cop_wait) /\ p' # p) =>
                \E s \in sigs :
                   \/ (s \in pending /\ pending' = pending \ {s})
                   \/ (s \notin blocked /\ signal_arrives(s))
          /\ \A s \in pending :
                \/ s \in pending'
                \/ (At(cop_wait) /\ p' = p + 1 /\ pending' = pending \ {s})]_vars
    /\ \A k \in 1..MaxActions :
          /\ WaitSignalled(k) ~> (pc = "run" /\ p = k + 1)
          /\ (WaitSignalled(k) /\ NoWaitAfter(k)) ~> (pc = "idle")

\* in host order, the first of two wait actions has returned with the only
\* pending signal, and the traversal is at the second
C7_Witness ==
    /\ proto_ok
    /\ At(cop_wait)
    /\ p = 2
    /\ checkpoint_action[1].opcode = cop_wait
    /\ pending = {}
    /\ blocked # {}

\* a checkpoint_finish call
FinishStep == pc = "idle" /\ pc' = "exited"

\* the number of ttyout actions in the list
TtyoutCount(list) ==
    Cardinality({i \in 1..Len(list) : list[i].opcode = cop_ttyout})

\* the widths the terminal can have
Widths == {getwidth(ws_col, columns) : ws_col \in WsCols, columns \in ColumnsEnv}

\* n times: w spaces and one carriage return
IsBlanking(text, n, w) ==
    /\ Len(text) = n * (w + 1)
    /\ \A i \in 1..Len(text) :
          text[i] = IF i % (w + 1) = 0 THEN CR ELSE " "

\* C8: checkpoint_finish with checkpointing enabled writes, for every ttyout
\* action of the list, terminal-width many spaces and one carriage return to
\* the terminal if the terminal is open and tty_cleanup is set, and writes
\* nothing otherwise; it then closes the terminal if it was opened; with
\* checkpointing disabled it does nothing at all.
C8_Finish ==
    [][FinishStep =>
          IF checkpoint_option = 0
          THEN out' = NoOut /\ tty' = tty /\ tty_cleanup' = tty_cleanup
          ELSE /\ tty' = (IF tty = "open" THEN "closed" ELSE "NULL")
               /\ tty_cleanup' = tty_cleanup
               /\ IF tty = "open" /\ tty_cleanup
                     /\ TtyoutCount(checkpoint_action) > 0
                  THEN /\ out'.stream = "tty"
                       /\ \E w \in Widths :
                             IsBlanking(out'.text,
                                        TtyoutCount(checkpoint_action), w)
                  ELSE out' = NoOut]_vars

\* checkpoint_finish has blanked the line once for each of two ttyout actions
\* on a terminal 3 columns wide, and closed the terminal
C8_Witness ==
    /\ pc = "exited"
    /\ tty = "closed"
    /\ out.stream = "tty"
    /\ TtyoutCount(checkpoint_action) = 2
    /\ Len(out.text) = 8

\* a bell or ttyout action is being executed
TerminalStep == (At(cop_bell) \/ At(cop_ttyout)) /\ p' = p + 1

\* C9, as claimed: an action at which the open of the terminal has once
\* failed writes nothing to the terminal on any later tick.
C9_FailedOnceSilentEverAfter ==
    [][(TerminalStep /\ p \in failed_at) => out'.stream # "tty"]_vars

\* C9, amended: a bell or ttyout action at which the open of the terminal
\* fails writes nothing, reports nothing and changes nothing but the position
\* in the list, so the rest of the tick runs; the open is tried again each
\* time such an action runs with the terminal not open, and the action writes
\* to the terminal as soon as an open succeeds.
C9_OpenFailureSkipsAction ==
    [][TerminalStep =>
          /\ pc' = "run"
          /\ (tty = "NULL" /\ tty' = "NULL") =>
                /\ out' = NoOut
                /\ tty_cleanup' = tty_cleanup
                /\ checkpoint_action' = checkpoint_action
                /\ checkpoint' = checkpoint
          /\ tty' # "NULL" => out'.stream = "tty"
          /\ tty # "NULL" => tty' = tty]_vars

\* the open failed at the first action of a tick and the second action has run
C9_Witness ==
    /\ pc = "run"
    /\ Len(checkpoint_action) = 2
    /\ p = 3
    /\ 1 \in failed_at
    /\ tty = "NULL"
    /\ out.stream = "stdlis"

\* C10, as claimed (its last part): once the state is CHKP_RUN no operation
\* changes the list.
C10_ImmutableWhenRunning ==
    [][checkpoint_state = CHKP_RUN => checkpoint_action' = checkpoint_action]_vars

\* C10, amended: the list changes only in a compile call, which adds one
\* record at the end and leaves the existing records as they are, also when
\* the state is CHKP_RUN; the steps of a traversal, checkpoint_finish_compile
\* in CHKP_RUN and checkpoint_finish never change it.
C10_AppendOnly ==
    [][/\ checkpoint_action' # checkpoint_action =>
             /\ CompileCall
             /\ Len(checkpoint_action') = Len(checkpoint_action) + 1
             /\ SubSeq(checkpoint_action', 1, Len(checkpoint_action))
                   = checkpoint_action
       /\ (pc = "run" \/ FinishStep
             \/ (FinishCompileStep /\ checkpoint_state = CHKP_RUN)) =>
             checkpoint_action' = checkpoint_action]_vars

\* after a traversal in CHKP_RUN the list holds a second record with a payload
C10_Witness ==
    /\ checkpoint_state = CHKP_RUN
    /\ traversals > 0
    /\ pc = "idle"
    /\ Len(checkpoint_action) = 2
    /\ checkpoint_action[2].time = 2

(* ------------------------- the template interpreter -------------------- *)

\* the loop of a render on its own takes a step
RenderStep == fpc = "loop" /\ ip' # ip

\* the text of the template from the read position on begins with t
ReadsNext(t) == HasPrefix(Tail_n(input, ip - 1), t)

\* the arguments given to %* in the templates: absent, whole numbers, and
\* arguments that are no whole number
StarArgs ==
    { [text |-> <<"%", "*">>, given |-> FALSE, valid |-> FALSE, w |-> 0],
      [text |-> <<"%", "{", "5", "}", "*">>, given |-> TRUE, valid |-> TRUE, w |-> 5],
      [text |-> <<"%", "{", "2", "}", "*">>, given |-> TRUE, valid |-> TRUE, w |-> 2],
      [text |-> <<"%", "{", "}", "*">>, given |-> TRUE, valid |-> FALSE, w |-> 0],
      [text |-> <<"%", "{", "x", "}", "*">>, given |-> TRUE, valid |-> FALSE, w |-> 0],
      [text |-> <<"%", "{", "5", "x", "}", "*">>, given |-> TRUE, valid |-> FALSE,
       w |-> 0] }

\* the width of the terminal: the probe's answer, else COLUMNS, else 80
LiveWidth ==
    IF fenv.ws_col > 0 THEN fenv.ws_col
    ELSE IF fenv.columns = <<"9">> THEN 9
    ELSE 80

\* the step writes spaces until the running column count reaches w, and none
\* if it has reached w already
PadsTo(w) ==
    /\ fp' = fp \o Spaces(IF w > len THEN w - len ELSE 0)
    /\ len' = (IF w > len THEN w ELSE len)

\* C11, as claimed: %* pads to its argument if that is a whole number, and to
\* the width of the terminal if the argument is absent or is no whole number.
C11_InvalidWidthIsLive ==
    [][\A a \in StarArgs :
          (RenderStep /\ ReadsNext(a.text)) =>
             PadsTo(IF a.valid THEN a.w ELSE LiveWidth)]_vars

\* C11, amended: %* pads to its argument if that is a whole number, to the
\* width of the terminal (the probe's answer, else COLUMNS, else 80) if the
\* argument is absent, and to 80 columns, whatever the terminal, if the
\* argument is given and is no whole number.
C11_InvalidWidthIs80 ==
    [][\A a \in StarArgs :
          (RenderStep /\ ReadsNext(a.text)) =>
             PadsTo(IF a.valid THEN a.w
                    ELSE IF a.given THEN 80
                    ELSE LiveWidth)]_vars

\* %{x}* has padded to 80 columns on a terminal 3 columns wide
C11_Witness ==
    /\ fpc = "done"
    /\ input = <<"%", "{", "x", "}", "*">>
    /\ fenv.ws_col = 3
    /\ len0 = 0
    /\ fp = Spaces(80)

\* the %T directives of the templates: the labels the claim expects to be
\* handed to format_total_stats, the labels with a null pointer in every slot
\* that was given no word, and the errors reported
TotalsArgs ==
    { [text |-> <<"%", "T">>,
       filled |-> <<<<"R">>, <<"W">>, <<"D">>>>,
       given |-> <<<<"R">>, <<"W">>, <<"D">>>>, err |-> 0],
      [text |-> <<"%", "{", "a", "}", "T">>,
       filled |-> <<<<"a">>, <<"W">>, <<"D">>>>,
       given |-> <<<<"a">>, NULL, NULL>>, err |-> 0],
      [text |-> <<"%", "{", "a", ",", "b", "}", "T">>,
       filled |-> <<<<"a">>, <<"b">>, <<"D">>>>,
       given |-> <<<<"a">>, <<"b">>, NULL>>, err |-> 0],
      [text |-> <<"%", "{", "a", ",", "b", ",", "c", "}", "T">>,
       filled |-> <<<<"a">>, <<"b">>, <<"c">>>>,
       given |-> <<<<"a">>, <<"b">>, <<"c">>>>, err |-> 0],
      [text |-> <<"%", "{", "a", ",", "b", ",", "c", ",", "d", "}", "T">>,
       filled |-> <<<<"R">>, <<"W">>, <<"D">>>>,
       given |-> <<<<"R">>, <<"W">>, <<"D">>>>, err |-> 1] }

\* the template with four labels has been rendered to its end
FourLabelsRendered ==
    /\ fpc = "done"
    /\ input = <<"%", "{", "a", ",", "b", ",", "c", ",", "d", "}", "T", "z">>
    /\ fenv.beyond = <<>>

\* C12, as claimed: a slot that is given no label keeps its default label.
C12_DefaultFill ==
    [][\A a \in TotalsArgs :
          (RenderStep /\ ReadsNext(a.text)) =>
             (labels' = a.filled /\ nerr' = nerr + a.err)]_vars

\* C12, amended: with no argument %T hands the three default labels to the
\* totals formatter; with 1 to 3 labels slot i gets the i-th label and every
\* slot that is given none gets no label at all (a null pointer); with more
\* than three labels one error is reported, the default labels are used, and
\* the rest of the template is rendered.
C12_NullFill ==
    /\ [][\A a \in TotalsArgs :
             (RenderStep /\ ReadsNext(a.text)) =>
                (labels' = a.given /\ nerr' = nerr + a.err)]_vars
    /\ [](FourLabelsRendered =>
             (nerr = 1 /\ fp # <<>> /\ fp[Len(fp)] = "z"))

\* %{a}T has handed the label a and two null pointers to the totals formatter
C12_Witness ==
    /\ fpc = "done"
    /\ input = <<"%", "{", "a", "}", "T">>
    /\ labels = <<<<"a">>, NULL, NULL>>
    /\ nerr = 0

\* the template is made of literal characters only
IsLiteral(t) == \A i \in 1..Len(t) : t[i] # "%" /\ t[i] # CR

\* C13: format_checkpoint_string returns the number of columns it wrote: a
\* literal template is written as it is and its length returned, and %u
\* writes the checkpoint number and returns the number of its digits.
C13_ReturnsColumnsWritten ==
    fpc = "done" =>
       /\ IsLiteral(input) => (fp = input /\ len = Len(input))
       /\ (input = <<"%", "u">> /\ cpn = 42) => (fp = <<"4", "2">> /\ len = 2)
       /\ (input = <<"%", "u">> /\ cpn = 7) => (fp = <<"7">> /\ len = 1)

\* the position in text of its last carriage return, 0 if it has none
LastCR(text) ==
    IF \E i \in 1..Len(text) : text[i] = CR
    THEN CHOOSE i \in 1..Len(text) :
             text[i] = CR /\ \A k \in (i + 1)..Len(text) : text[k] # CR
    ELSE 0

\* the column the cursor is in after text was written from column start on
CursorColumn(start, text) ==
    IF LastCR(text) = 0 THEN start + Len(text) ELSE Len(text) - LastCR(text)

\* C17: at every point of a render the running column count is the start
\* column plus the characters written so far if no carriage return was
\* written, and else the characters written since the last carriage return,
\* across all directives, %c among them.
C17_ColumnCountIsCursor ==
    fpc \in {"loop", "done"} => len = CursorColumn(len0, fp)

\* C18: the read position never moves past the terminator of the template
\* (position Len + 1 here), and nothing behind the template is written.
C18_ReadPositionInTemplate ==
    fpc \in {"loop", "done"} =>
       /\ ip \in 1..(Len(input) + 1)
       /\ \A i \in 1..Len(fp) : fp[i] # NUL

\* the TEXT of a specification: what follows its first =
TextOf(str) ==
    LET k == CHOOSE k \in 1..Len(str) :
                 str[k] = "=" /\ \A m \in 1..(k - 1) : str[m] # "="
    IN [i \in 1..(Len(str) - k) |-> str[k + i]]

\* the text has more than one character and begins and ends with the same
\* quote character
Wrapped(t) == Len(t) > 1 /\ t[1] \in {"'", "\""} /\ t[Len(t)] = t[1]

\* the texts of QuoteSpecs and what each is to become
QuoteCases ==
    { [text |-> <<"\"", "h", "e", "l", "l", "o", "\"">>, result |-> <<"h", "e", "l", "l", "o">>],
      [text |-> <<"'", "i", "t", "'", "'", "s", "'">>, result |-> <<"i", "t", "'", "'", "s">>],
      [text |-> <<"'">>, result |-> <<"'">>],
      [text |-> <<"'", "'">>, result |-> <<>>],
      [text |-> <<"'", "a", "b", "\"">>, result |-> <<"'", "a", "b", "\"">>],
      [text |-> <<"h", "e", "l", "l", "o">>, result |-> <<"h", "e", "l", "l", "o">>],
      [text |-> <<"\"", "a", "'", "b", "\"">>, result |-> <<"a", "'", "b">>],
      [text |-> <<"a", "'", "b", "'">>, result |-> <<"a", "'", "b", "'">>] }

\* a compile call has accepted a specification
Compiled == Len(specs') = Len(specs) + 1

\* C14: the text of echo=, exec= and ttyout= loses exactly its one outer pair
\* of equal quotes if it has more than one character and is wrapped in such a
\* pair, and is kept as it is otherwise (a single quote character too).
C14_Unquoting ==
    [][Compiled =>
          LET t == TextOf(specs'[Len(specs')])
              c == checkpoint_action'[Len(checkpoint_action')].command
          IN /\ Wrapped(t) =>
                   /\ Len(c) = Len(t) - 2
                   /\ \A i \in 1..Len(c) : c[i] = t[i + 1]
             /\ ~Wrapped(t) => c = t
             /\ \A q \in QuoteCases : t = q.text => c = q.result]_vars

\* 'it''s' was compiled to it''s, after a text of two different quotes that
\* was kept as it is
C14_Witness ==
    /\ Len(checkpoint_action) = 2
    /\ checkpoint_action[1].command = <<"'", "a", "b", "\"">>
    /\ checkpoint_action[2].command = <<"i", "t", "'", "'", "s">>
    /\ checkpoint_action[2].opcode = cop_exec

\* C15: when checkpoint_finish_compile leaves CHKP_COMPILE the interval
\* becomes DEFAULT_CHECKPOINT if the host set none and stays as the host set
\* it otherwise, and it is not touched before; so in CHKP_RUN the interval is
\* never 0.
C15_IntervalWhenRunning ==
    /\ checkpoint_state = CHKP_RUN =>
          /\ checkpoint_option =
                (IF configured_option = 0 THEN 10 ELSE configured_option)
          /\ checkpoint_option # 0
    /\ checkpoint_state # CHKP_RUN => checkpoint_option = configured_option

\* CHKP_RUN was entered with no interval set, and ticks have come since
C15_Witness ==
    /\ checkpoint_state = CHKP_RUN
    /\ configured_option = 0
    /\ checkpoint_option = 10
    /\ nticks > 0
    /\ checkpoint = nticks

\* a checkpoint_finish_compile call returns
FinishCompileReturns == pc = "finish_compile" /\ pc' = "idle"

\* C20: when checkpoint_finish_compile returns the state is CHKP_RUN if and
\* only if an action was compiled or the interval is not 0; with no action
\* compiled and interval 0 the state stays CHKP_INIT, the list empty, the
\* interval 0 and no signal blocked, and no checkpoint_run does anything.
C20_FinishCompileWhenDisabled ==
    /\ [][FinishCompileReturns =>
             (checkpoint_state' = CHKP_RUN
                 <=> (specs # <<>> \/ configured_option # 0))]_vars
    /\ []((fc_called /\ pc # "fatal" /\ specs = <<>> /\ configured_option = 0) =>
             /\ checkpoint_state = CHKP_INIT
             /\ checkpoint_action = <<>>
             /\ checkpoint_option = 0
             /\ blocked = {}
             /\ nblock = 0
             /\ checkpoint = 0
             /\ traversals = 0
             /\ pc # "run"
             /\ out = NoOut)

\* with nothing compiled and interval 0, checkpoint_finish_compile has
\* returned and every checkpoint_run of the run has been made
C20_Witness ==
    /\ fc_called
    /\ pc = "idle"
    /\ specs = <<>>
    /\ configured_option = 0
    /\ checkpoint_state = CHKP_INIT
    /\ nticks = MaxTicks

\* the opcodes of the first n records of the list
OpcodesOf(list, n) == [i \in 1..n |-> list[i].opcode]

\* C16: a traversal performs the actions of the list one after the other in
\* the order of the list, each once: at record p exactly the records before
\* it have been performed, the traversal moves from a record to the next
\* only, and it ends only behind the last record; a failed open of the
\* terminal does not end it, and every tick that is a multiple of the
\* interval begins a traversal at the first record, whatever failed before.
C16_ExecutorOrder ==
    /\ [](/\ pc = "run" =>
               /\ p \in 1..(Len(checkpoint_action) + 1)
               /\ executed = OpcodesOf(checkpoint_action, p - 1)
          /\ pc # "run" => executed = <<>>)
    /\ [][/\ (pc = "run" /\ pc' = "run") =>
                /\ p' \in {p, p + 1}
                /\ checkpoint_action' = checkpoint_action
          /\ (pc = "run" /\ pc' # "run") =>
                /\ p = Len(checkpoint_action) + 1
                /\ executed = OpcodesOf(checkpoint_action, Len(checkpoint_action))
                /\ pc' = "idle"
          /\ (TerminalStep /\ tty' = "NULL") => (pc' = "run" /\ p' = p + 1)
          /\ (pc = "idle" /\ nticks' = nticks + 1 /\ checkpoint_option # 0
                /\ (checkpoint + 1) % checkpoint_option = 0) =>
                (pc' = "run" /\ p' = 1)]_vars

\* the second traversal of the run has performed a bell, whose open of the
\* terminal failed as it had in the first, and then an exec
C16_Witness ==
    /\ pc = "run"
    /\ traversals = 2
    /\ tty = "NULL"
    /\ failed_at = {1}
    /\ p = 3
    /\ executed = <<cop_bell, cop_exec>>

\* the text holds a carriage return
HasCR(text) == \E i \in 1..Len(text) : text[i] = CR

\* no ttyout action of the list renders a carriage return: its template has
\* none and has no directive
NoTtyoutCR ==
    \A i \in 1..Len(checkpoint_action) :
       checkpoint_action[i].opcode = cop_ttyout =>
          \A k \in 1..Len(checkpoint_action[i].command) :
             checkpoint_action[i].command[k] \notin {CR, "%"}

\* C19: in host order, tty_cleanup is set only by a carriage return written
\* to the terminal; if no ttyout action has rendered one, checkpoint_finish
\* writes no blanking spaces to the terminal.
C19_DirtyOnlyByTerminalCR ==
    [][/\ (proto_ok /\ tty_cleanup' /\ ~tty_cleanup) =>
             (At(cop_ttyout) /\ out'.stream = "tty" /\ HasCR(out'.text))
       /\ (proto_ok /\ FinishStep /\ NoTtyoutCR) => out' = NoOut]_vars

====
